---- MODULE Spec2Model ----
(***************************************************************************)
(* Model of apps/server/src/lib/configuration.ts: the AI configuration     *)
(* object, the model selector getChatModel and the stage operations built  *)
(* on it (rewriteQuery ... enrichChunk), together with the deep-search     *)
(* controller that drives rerankDocuments and evaluateAndRefine.           *)
(*                                                                         *)
(* Text is a sequence of one-character strings, so that trim() and         *)
(* toLowerCase() are computed character by character.  Temperatures are    *)
(* in tenths (0.3 is 3).  The language model behind every stage is an      *)
(* adversary: each stage action draws its response from a set that also    *)
(* holds the malformed answers.                                            *)
(***************************************************************************)
EXTENDS Integers, Sequences, FiniteSets

VARIABLES
  aiEnabled,      \* configuration.ai.enabled
  providers,      \* configuration.ai.providers: provider -> [enabled]
  models,         \* configuration.ai.models: task -> [provider, modelName, temperature]
  maxIterations,  \* configuration.ai.deepSearch.maxIterations
  call,           \* the stage call made last: operation, arguments, resolution, result
  dsState,        \* deep-search controller: RETRIEVE, EVALUATE, REFINE, DONE, FAILED
  dsIteration,    \* deep-search controller: iteration counter
  dsPasses,       \* deep-search controller: retrieval passes performed
  dsAccumulated   \* deep-search controller: number of ranked documents accumulated

vars == <<aiEnabled, providers, models, maxIterations, call,
          dsState, dsIteration, dsPasses, dsAccumulated>>

config == <<aiEnabled, providers, models, maxIterations>>

deepVars == <<dsState, dsIteration, dsPasses, dsAccumulated>>

----------------------------------------------------------------------------
(* Bounds *)

\* Longest candidate / context document list a stage is given.
MaxDocs == 1

\* Longest citation list the model answers with.
MaxCitations == 2

\* Longest candidate database list the filter planner is given.
MaxDatabases == 1

\* Largest DEEP_SEARCH_MAX_ITERATIONS the deep-search runs are checked with.
MaxIterationsBound == 3

\* RETRIEVAL_HYBRID_SEARCH_MAX_RESULTS as set in the environment of the model.
maxResults == 2

\* DEEP_SEARCH_MAX_ITERATIONS when the environment does not set it.
DefaultMaxIterations == 3

----------------------------------------------------------------------------
(* Configuration *)

Tasks ==
  {"queryRewrite", "response", "rerank", "summarization", "contextEnhancer",
   "noContext", "intentRecognition", "databaseFilter", "reasoning",
   "deepPlanner", "deepCritic", "deepRerank"}

\* The AiProvider union.
AiProvider == {"openai", "google"}

\* What a *_PROVIDER environment variable can hold: the cast to AiProvider is
\* unchecked.  "anthropic" stands for a tag that names no property at all,
\* "constructor" for a tag that names a property every object inherits.
ProviderTags == AiProvider \cup {"anthropic", "constructor"}

ObjectPrototypeKeys == {"constructor"}

DefaultProvider(task) == IF task = "deepRerank" THEN "google" ELSE "openai"

DefaultModelName(task) ==
  CASE task = "reasoning" -> "gpt-4o"
    [] task \in {"deepPlanner", "deepCritic"} -> "o3"
    [] task = "deepRerank" -> "gemini-2.5-pro"
    [] OTHER -> "gpt-4o-mini"

DefaultTemperature(task) ==
  CASE task \in {"queryRewrite", "response", "reasoning", "deepPlanner"} -> 3
    [] task = "rerank" -> 1
    [] task \in {"summarization", "contextEnhancer", "deepRerank"} -> 2
    [] task = "noContext" -> 5
    [] OTHER -> 0

DefaultModels ==
  [task \in Tasks |->
     [provider |-> DefaultProvider(task),
      modelName |-> DefaultModelName(task),
      temperature |-> DefaultTemperature(task)]]

\* The model tables the runs start from: the defaults, and the defaults with
\* one task's *_PROVIDER variable set to any tag.
ModelTables ==
  {[DefaultModels EXCEPT ![task].provider = tag] :
     task \in Tasks, tag \in ProviderTags}

ApiKeyOf(provider) == IF provider = "openai" THEN "OPENAI_API_KEY" ELSE "GOOGLE_API_KEY"

\* OPENAI_ENABLED and GOOGLE_ENABLED are compared with 'true': always a boolean.
ProviderTables ==
  {[provider \in AiProvider |->
      [apiKey |-> ApiKeyOf(provider), enabled |-> enabledOf[provider]]] :
     enabledOf \in [AiProvider -> BOOLEAN]}

----------------------------------------------------------------------------
(* Model selector *)

NoError == "none"
AiDisabledError == "AI is disabled."
ProviderDisabledError == "provider is disabled."
UnsupportedProviderError == "Unsupported AI provider"
TypeError == "TypeError: Cannot read properties of undefined (reading 'enabled')"

NoHandle ==
  [class |-> "none", modelName |-> "", hasTemperature |-> FALSE,
   temperature |-> 0, apiKey |-> ""]

\* configuration.ai.providers[tag] as JavaScript evaluates it: the entry of a
\* known provider; an inherited property, which has no 'enabled', for a key of
\* Object.prototype; undefined for any other tag.
providerConfigOf(tag) ==
  IF tag \in AiProvider
    THEN [defined |-> TRUE, enabled |-> providers[tag].enabled,
          apiKey |-> providers[tag].apiKey]
    ELSE IF tag \in ObjectPrototypeKeys
      THEN [defined |-> TRUE, enabled |-> FALSE, apiKey |-> ""]
      ELSE [defined |-> FALSE, enabled |-> FALSE, apiKey |-> ""]

Failure(error, events) == [error |-> error, handle |-> NoHandle, events |-> events]

\* getChatModel with the provider looked up and checked before the AI flag.
getChatModel_ProviderCheckFirst(task, reasoningModel) ==
  LET modelConfig == models[task]
      providerConfig == providerConfigOf(modelConfig.provider)
      looked == <<"providerLookup">>
      handle == [class |-> IF modelConfig.provider = "openai" THEN "ChatOpenAI"
                           ELSE "ChatGoogleGenerativeAI",
                 modelName |-> modelConfig.modelName,
                 hasTemperature |-> ~(reasoningModel /\ modelConfig.provider = "openai"),
                 temperature |-> IF reasoningModel /\ modelConfig.provider = "openai"
                                 THEN 0 ELSE modelConfig.temperature,
                 apiKey |-> providerConfig.apiKey]
  IN
  IF ~providerConfig.defined THEN Failure(TypeError, looked)
  ELSE IF ~providerConfig.enabled THEN Failure(ProviderDisabledError, looked)
  ELSE IF ~aiEnabled THEN Failure(AiDisabledError, looked)
  ELSE IF modelConfig.provider \in AiProvider
    THEN [error |-> NoError, handle |-> handle,
          events |-> <<"providerLookup", "construct">>]
    ELSE Failure(UnsupportedProviderError, looked)

\* getChatModel without the check of providerConfig.enabled.
getChatModel_NoEnabledCheck(task, reasoningModel) ==
  LET modelConfig == models[task]
      providerConfig == providerConfigOf(modelConfig.provider)
      looked == <<"providerLookup">>
      handle == [class |-> IF modelConfig.provider = "openai" THEN "ChatOpenAI"
                           ELSE "ChatGoogleGenerativeAI",
                 modelName |-> modelConfig.modelName,
                 hasTemperature |-> ~(reasoningModel /\ modelConfig.provider = "openai"),
                 temperature |-> IF reasoningModel /\ modelConfig.provider = "openai"
                                 THEN 0 ELSE modelConfig.temperature,
                 apiKey |-> providerConfig.apiKey]
  IN
  IF ~aiEnabled THEN Failure(AiDisabledError, <<>>)
  ELSE IF ~providerConfig.defined THEN Failure(TypeError, looked)
  ELSE IF modelConfig.provider \in AiProvider
    THEN [error |-> NoError, handle |-> handle,
          events |-> <<"providerLookup", "construct">>]
    ELSE Failure(UnsupportedProviderError, looked)

\* getChatModel(task, reasoningModel): the error thrown or the handle built,
\* and the steps taken on the way (provider lookup, handle construction).
getChatModel(task, reasoningModel) ==
  LET modelConfig == models[task]
      providerConfig == providerConfigOf(modelConfig.provider)
      looked == <<"providerLookup">>
      built == <<"providerLookup", "construct">>
  IN
  IF ~aiEnabled THEN Failure(AiDisabledError, <<>>)
  ELSE IF ~providerConfig.defined THEN Failure(TypeError, looked)
  ELSE IF ~providerConfig.enabled THEN Failure(ProviderDisabledError, looked)
  ELSE CASE modelConfig.provider = "openai" ->
              [error |-> NoError,
               handle |->
                 IF reasoningModel
                   THEN [class |-> "ChatOpenAI", modelName |-> modelConfig.modelName,
                         hasTemperature |-> FALSE, temperature |-> 0,
                         apiKey |-> providerConfig.apiKey]
                   ELSE [class |-> "ChatOpenAI", modelName |-> modelConfig.modelName,
                         hasTemperature |-> TRUE,
                         temperature |-> modelConfig.temperature,
                         apiKey |-> providerConfig.apiKey],
               events |-> built]
         [] modelConfig.provider = "google" ->
              [error |-> NoError,
               handle |->
                 [class |-> "ChatGoogleGenerativeAI",
                  modelName |-> modelConfig.modelName,
                  hasTemperature |-> TRUE,
                  temperature |-> modelConfig.temperature,
                  apiKey |-> providerConfig.apiKey],
               events |-> built]
         [] OTHER -> Failure(UnsupportedProviderError, looked)

----------------------------------------------------------------------------
(* Stage calls *)

NoResult == "no result"

Idle ==
  [op |-> "idle", task |-> "none", reasoningModel |-> FALSE, args |-> "none",
   model |-> Failure(NoError, <<>>), invoked |-> FALSE, response |-> NoResult,
   result |-> NoResult]

\* One stage call: resolve the task's model, then, unless that threw, pipe the
\* prompt into the model and return its response ('response' is what the model
\* answered, 'result' what the operation returns).
StageCall(op, task, reasoningModel, args, response) ==
  LET model == getChatModel(task, reasoningModel) IN
  [op |-> op, task |-> task, reasoningModel |-> reasoningModel, args |-> args,
   model |-> model,
   invoked |-> model.error = NoError,
   response |-> IF model.error = NoError THEN response ELSE NoResult,
   result |-> IF model.error = NoError THEN response ELSE NoResult]

\* The responses a stage draws from: one placeholder when resolution throws.
ResponsesOf(task, reasoningModel, responses) ==
  IF getChatModel(task, reasoningModel).error = NoError THEN responses ELSE {NoResult}

----------------------------------------------------------------------------
(* Text: String.prototype.trim and String.prototype.toLowerCase *)

IsWhitespace(c) == c \in {" ", "\t", "\n", "\r"}

LowerOf(c) ==
  CASE c = "N" -> "n" [] c = "O" -> "o" [] c = "C" -> "c" [] c = "T" -> "t"
    [] c = "E" -> "e" [] c = "X" -> "x" [] c = "R" -> "r" [] c = "I" -> "i"
    [] c = "V" -> "v" [] OTHER -> c

toLowerCase(text) == [i \in 1..Len(text) |-> LowerOf(text[i])]

RECURSIVE trimStart(_)
trimStart(text) ==
  IF text = <<>> THEN text
  ELSE IF IsWhitespace(Head(text)) THEN trimStart(Tail(text)) ELSE text

RECURSIVE trimEnd(_)
trimEnd(text) ==
  IF text = <<>> THEN text
  ELSE IF IsWhitespace(text[Len(text)])
    THEN trimEnd(SubSeq(text, 1, Len(text) - 1)) ELSE text

trim(text) == trimEnd(trimStart(text))

\* The literal 'no_context' of assessUserIntent.
NoContextLiteral == <<"n", "o", "_", "c", "o", "n", "t", "e", "x", "t">>

\* classifyIntent without the trim().
classifyIntent_NoTrim(text) ==
  IF toLowerCase(text) = NoContextLiteral THEN "no_context" ELSE "retrieve"

\* result.trim().toLowerCase() === 'no_context' ? 'no_context' : 'retrieve'
classifyIntent(text) ==
  IF toLowerCase(trim(text)) = NoContextLiteral THEN "no_context" ELSE "retrieve"

\* What the intent model may answer, before padding.
IntentAnswers ==
  {NoContextLiteral,
   <<"N", "O", "_", "C", "O", "N", "T", "E", "X", "T">>,
   <<"N", "o", "_", "C", "o", "n", "t", "e", "x", "t">>,
   <<"n", "o", "_", "c", "o", "n", "T", "E", "X", "T">>,
   <<"r", "e", "t", "r", "i", "e", "v", "e">>,
   <<"R", "E", "T", "R", "I", "E", "V", "E">>,
   <<>>,
   <<"n", "o", " ", "c", "o", "n", "t", "e", "x", "t">>,
   <<"n", "o", "_", "c", "o", "n", "t", "e", "x", "t", ".">>,
   <<"n", "o", "_", "c", "o", "n", "t", "e", "x">>,
   <<"n", "o", "_", "c", "o", "n", "t", "e", "x", "t", " ", "n", "o", "_", "c",
     "o", "n", "t", "e", "x", "t">>,
   <<"i", "t", " ", "i", "s", " ", "n", "o", "_", "c", "o", "n", "t", "e", "x", "t">>,
   <<"n", "o", "_", "c", "o", "n", "t", "e", "x", "t", " ", "i", "t", " ", "i", "s">>}

\* Whitespace the model may put around its answer.
Paddings == {<<>>, <<" ">>, <<"\n">>, <<"\t", " ">>, <<"\r", "\n">>}

IntentResponses ==
  {left \o answer \o right :
     left \in Paddings, answer \in IntentAnswers, right \in Paddings}

----------------------------------------------------------------------------
(* Stage inputs and model responses *)

Modes == {"direct", "retrieve", "deep_search"}

\* A list of n documents (or databases); the i-th has source id i.
DocumentList(n) == [i \in 1..n |-> [sourceId |-> i]]

\* Sequences over a set of length at most n.
SeqsUpTo(set, n) == UNION {[1..len -> set] : len \in 0..n}

\* Rankings the rerank model may propose: entries with any index, in or out of
\* range, repeated or not, up to one entry more than maxResults.  An entry's
\* score, type and sourceId are carried along untouched and left out.
RerankResponses == SeqsUpTo([index : 0..MaxDocs], maxResults + 1)

\* Cited answers the response model may produce: citations with any source id,
\* supplied or not.
AnswerResponses == [citations : SeqsUpTo([sourceId : 1..(MaxDocs + 1)], MaxCitations)]

\* Filter results the database-filter model may produce.
DatabaseFilterResponses ==
  [relevantDatabaseIds : SUBSET (1..(MaxDatabases + 1)),
   fieldFilters : SUBSET (1..(MaxDatabases + 1))]

\* evaluateAndRefineSchema: refinedQuery is optional.
EvaluateResponses == [sufficient : BOOLEAN, refinedQuery : {"absent", "present"}]

----------------------------------------------------------------------------
(* Stage operations *)

rewriteQuery == StageCall("rewriteQuery", "queryRewrite", FALSE, "query", "rewritten")

summarizeDocument ==
  StageCall("summarizeDocument", "summarization", FALSE, "document", "summary")

\* rerankTask bound to 'rerank' whatever the mode.
rerankTask_AlwaysRerank(mode) == "rerank"

\* state.mode === 'deep_search' ? 'deepRerank' : 'rerank'
rerankTask(mode) == IF mode = "deep_search" THEN "deepRerank" ELSE "rerank"

\* return result.rankings
rerankDocuments(state, response) ==
  StageCall("rerankDocuments", rerankTask(state.mode), state.mode = "deep_search",
            state, response)

\* return (await answerPrompt.pipe(model).invoke(promptArgs)) as CitedAnswer
generateFinalAnswer(promptArgs, response) ==
  StageCall("generateFinalAnswer", "response", FALSE, promptArgs, response)

generateNoContextAnswer ==
  StageCall("generateNoContextAnswer", "noContext", FALSE, "query", "answer")

assessUserIntent(response) ==
  LET c == StageCall("assessUserIntent", "intentRecognition", FALSE, "query", response)
  IN IF c.invoked THEN [c EXCEPT !.result = classifyIntent(response)] ELSE c

\* return databaseFilterPrompt.pipe(model).invoke({ query, databasesInfo })
generateDatabaseFilters(args, response) ==
  StageCall("generateDatabaseFilters", "databaseFilter", FALSE, args, response)

evaluateAndRefine(response) ==
  StageCall("evaluateAndRefine", "deepPlanner", TRUE, "sources", response)

enrichChunk == StageCall("enrichChunk", "contextEnhancer", FALSE, "chunk", "enriched")

----------------------------------------------------------------------------
(* Specification of the stage operations: one call on a loaded configuration *)

ConfigInit ==
  /\ aiEnabled \in BOOLEAN
  /\ providers \in ProviderTables
  /\ call = Idle
  /\ dsState = "RETRIEVE"
  /\ dsIteration = 1
  /\ dsPasses = 0
  /\ dsAccumulated = 0

\* The stage operations read the flags and the model table, never
\* deepSearch.maxIterations, which is left at its default.
Init ==
  /\ ConfigInit
  /\ models \in ModelTables
  /\ maxIterations = DefaultMaxIterations

Returns(c) ==
  /\ call.op = "idle"
  /\ call' = c
  /\ UNCHANGED <<config, deepVars>>

Resolve ==
  \E task \in Tasks, reasoningModel \in BOOLEAN :
    Returns(StageCall("getChatModel", task, reasoningModel, "none", NoResult))

RewriteQuery == Returns(rewriteQuery)

SummarizeDocument == Returns(summarizeDocument)

RerankDocuments ==
  \E mode \in Modes, n \in 0..MaxDocs :
    \E response \in ResponsesOf(rerankTask(mode), mode = "deep_search", RerankResponses) :
      Returns(rerankDocuments([mode |-> mode, contextDocuments |-> DocumentList(n)],
                              response))

GenerateFinalAnswer ==
  \E n \in 0..MaxDocs :
    \E response \in ResponsesOf("response", FALSE, AnswerResponses) :
      Returns(generateFinalAnswer([formattedDocuments |-> DocumentList(n)], response))

GenerateNoContextAnswer == Returns(generateNoContextAnswer)

AssessUserIntent ==
  \E response \in ResponsesOf("intentRecognition", FALSE, IntentResponses) :
    Returns(assessUserIntent(response))

GenerateDatabaseFilters ==
  \E n \in 0..MaxDatabases :
    \E response \in ResponsesOf("databaseFilter", FALSE, DatabaseFilterResponses) :
      Returns(generateDatabaseFilters([databases |-> DocumentList(n)], response))

EvaluateAndRefine ==
  \E response \in ResponsesOf("deepPlanner", TRUE, EvaluateResponses) :
    Returns(evaluateAndRefine(response))

EnrichChunk == Returns(enrichChunk)

Next ==
  \/ Resolve
  \/ RewriteQuery
  \/ SummarizeDocument
  \/ RerankDocuments
  \/ GenerateFinalAnswer
  \/ GenerateNoContextAnswer
  \/ AssessUserIntent
  \/ GenerateDatabaseFilters
  \/ EvaluateAndRefine
  \/ EnrichChunk

Spec == Init /\ [][Next]_vars

----------------------------------------------------------------------------
(* Deep-search controller: one pipeline run in deep_search mode *)

\* deepSearchStops without the iteration cap.
deepSearchStops_NoCap(result, iteration) ==
  \/ result.sufficient
  \/ result.refinedQuery = "absent"

\* EVALUATE: stop when the evidence is sufficient, the iteration counter has
\* reached maxIterations, or no refined query came back.
deepSearchStops(result, iteration) ==
  \/ result.sufficient
  \/ iteration >= maxIterations
  \/ result.refinedQuery = "absent"

\* A run starts in RETRIEVE, at iteration 1, with nothing accumulated.  The
\* model table is the default one; the flags and maxIterations vary.
InitDeep ==
  /\ ConfigInit
  /\ models = DefaultModels
  /\ maxIterations \in 1..MaxIterationsBound

\* RETRIEVE -> EVALUATE: external retrieval, then the reranker; the ranked
\* batch is appended to the accumulated documents.  A configuration error of
\* the reranker ends the run.
DeepRetrieve ==
  /\ dsState = "RETRIEVE"
  /\ \E n \in 0..MaxDocs :
       \E response \in ResponsesOf("deepRerank", TRUE, RerankResponses) :
         LET c == rerankDocuments([mode |-> "deep_search",
                                   contextDocuments |-> DocumentList(n)], response)
         IN /\ call' = c
            /\ dsPasses' = dsPasses + 1
            /\ IF c.invoked
                 THEN /\ dsAccumulated' = dsAccumulated + Len(c.result)
                      /\ dsState' = "EVALUATE"
                 ELSE /\ dsAccumulated' = dsAccumulated
                      /\ dsState' = "FAILED"
  /\ UNCHANGED <<config, dsIteration>>

\* EVALUATE -> DONE | REFINE.
DeepEvaluate ==
  /\ dsState = "EVALUATE"
  /\ \E response \in ResponsesOf("deepPlanner", TRUE, EvaluateResponses) :
       LET c == evaluateAndRefine(response)
       IN /\ call' = c
          /\ dsState' = IF ~c.invoked THEN "FAILED"
                        ELSE IF deepSearchStops(c.result, dsIteration) THEN "DONE"
                        ELSE "REFINE"
  /\ UNCHANGED <<config, dsIteration, dsPasses, dsAccumulated>>

\* REFINE -> RETRIEVE: adopt the refined query, count the iteration.  The
\* second conjunct caps the counter; it never binds while EVALUATE honours
\* maxIterations.
DeepRefine ==
  /\ dsState = "REFINE"
  /\ dsIteration <= MaxIterationsBound + 1
  /\ dsIteration' = dsIteration + 1
  /\ dsState' = "RETRIEVE"
  /\ UNCHANGED <<config, call, dsPasses, dsAccumulated>>

DeepNext ==
  \/ DeepRetrieve
  \/ DeepEvaluate
  \/ DeepRefine

\* The run is driven by one task that is never starved: each stage call
\* returns and the controller takes its next step.
SpecDeep == InitDeep /\ [][DeepNext]_vars /\ WF_vars(DeepNext)

----------------------------------------------------------------------------
(* Properties *)

Called == call.op # "idle"

Returned(op) == call.op = op /\ call.invoked

ConfiguredProvider == models[call.task].provider

\* The deep-search tasks resolve under the loaded configuration.
DeepTasksResolve ==
  /\ getChatModel("deepRerank", TRUE).error = NoError
  /\ getChatModel("deepPlanner", TRUE).error = NoError

\* C1: a deep-search run never performs more than maxIterations retrieval
\* passes, and, whatever the evaluator answers, a run whose stage calls
\* resolve ends in DONE.
C1_DeepSearchTerminates ==
  /\ [](dsPasses <= maxIterations)
  /\ (DeepTasksResolve => <>(dsState = "DONE"))

\* C1 witness: a run stopped by the cap alone, after maxIterations passes, on
\* an evaluation that was insufficient and carried a refined query.
C1_Witness ==
  /\ dsState = "DONE"
  /\ maxIterations = MaxIterationsBound
  /\ dsPasses = maxIterations
  /\ call.op = "evaluateAndRefine"
  /\ ~call.result.sufficient
  /\ call.result.refinedQuery = "present"

\* C2 (as claimed): every ranking returned by rerankDocuments has its indices
\* in [0, candidates.length), no index twice, and at most maxResults entries.
C2_RerankOutputIntegrity ==
  Returned("rerankDocuments") =>
    LET rankings == call.result
        n == Len(call.args.contextDocuments)
    IN /\ \A i \in 1..Len(rankings) : rankings[i].index \in 0..(n - 1)
       /\ \A i, j \in 1..Len(rankings) :
            i # j => rankings[i].index # rankings[j].index
       /\ Len(rankings) <= maxResults

\* C3 (as claimed): every citation of the answer returned by
\* generateFinalAnswer names a source id of the supplied context documents.
C3_CitationIntegrity ==
  Returned("generateFinalAnswer") =>
    LET supplied == {call.args.formattedDocuments[i].sourceId :
                       i \in 1..Len(call.args.formattedDocuments)}
    IN \A i \in 1..Len(call.result.citations) :
         call.result.citations[i].sourceId \in supplied

\* C4: with the AI flag off every resolution, direct or by a stage, throws the
\* AI-disabled error before the provider is looked up, a handle is built or
\* the model is invoked.
C4_AiDisabledGate ==
  (Called /\ ~aiEnabled) =>
    /\ call.model.error = AiDisabledError
    /\ call.model.events = <<>>
    /\ call.model.handle = NoHandle
    /\ ~call.invoked

\* C4 witness: a stage was called with the AI flag off and its task's provider
\* disabled as well, and the AI-disabled error came out.
C4_Witness ==
  /\ ~aiEnabled
  /\ call.op = "rerankDocuments"
  /\ ConfiguredProvider \in AiProvider
  /\ ~providers[ConfiguredProvider].enabled
  /\ call.model.error = AiDisabledError

\* C5: with the AI flag on, resolving a task whose provider entry is not
\* enabled (false, or without an 'enabled') throws the provider-disabled error;
\* no handle is built and the stage never invokes the model.
C5_ProviderDisabledGate ==
  (/\ Called
   /\ aiEnabled
   /\ \/ ConfiguredProvider \in AiProvider /\ ~providers[ConfiguredProvider].enabled
      \/ ConfiguredProvider \in ObjectPrototypeKeys) =>
    /\ call.model.error = ProviderDisabledError
    /\ call.model.handle = NoHandle
    /\ \A i \in 1..Len(call.model.events) : call.model.events[i] # "construct"
    /\ ~call.invoked
    /\ call.result = NoResult

\* C5 witness: evaluateAndRefine was called with the AI flag on and its
\* provider disabled, and failed.
C5_Witness ==
  /\ aiEnabled
  /\ call.op = "evaluateAndRefine"
  /\ ConfiguredProvider \in AiProvider
  /\ ~providers[ConfiguredProvider].enabled
  /\ call.model.error = ProviderDisabledError

\* C6 (as claimed): with the AI flag on, resolving a task whose provider tag
\* is neither openai nor google throws the unsupported-provider error.
C6_UnknownProviderUnsupported ==
  (Called /\ aiEnabled /\ ConfiguredProvider \notin AiProvider) =>
    call.model.error = UnsupportedProviderError

\* C7 (as claimed): a handle resolved with the reasoning flag carries no
\* temperature, for openai and google alike; one resolved without it carries
\* the task's configured temperature.
C7_ReasoningOmitsTemperature ==
  (Called /\ call.model.error = NoError) =>
    IF call.reasoningModel
      THEN ~call.model.handle.hasTemperature
      ELSE /\ call.model.handle.hasTemperature
           /\ call.model.handle.temperature = models[call.task].temperature

UpperOf(c) ==
  CASE c = "n" -> "N" [] c = "o" -> "O" [] c = "c" -> "C" [] c = "t" -> "T"
    [] c = "e" -> "E" [] c = "x" -> "X" [] OTHER -> c

\* The text is the sentinel, in any letter case, between two runs of whitespace.
IsSentinelResponse(text) ==
  \E first \in 1..(Len(text) + 1) :
    LET last == first + Len(NoContextLiteral) - 1 IN
    /\ last <= Len(text)
    /\ \A k \in 1..(first - 1) : IsWhitespace(text[k])
    /\ \A k \in (last + 1)..Len(text) : IsWhitespace(text[k])
    /\ \A k \in 1..Len(NoContextLiteral) :
         text[first + k - 1] \in {NoContextLiteral[k], UpperOf(NoContextLiteral[k])}

\* C8: assessUserIntent returns no_context exactly when the model's text is
\* the sentinel up to surrounding whitespace and letter case, and retrieve for
\* every other text.
C8_IntentFailOpen ==
  Returned("assessUserIntent") =>
    /\ call.result \in {"no_context", "retrieve"}
    /\ (call.result = "no_context") <=> IsSentinelResponse(call.response)

\* C8 witness: a padded, upper-case sentinel was classified no_context.
C8_Witness ==
  /\ Returned("assessUserIntent")
  /\ call.result = "no_context"
  /\ Len(call.response) > Len(NoContextLiteral)
  /\ \E k \in 1..Len(call.response) : call.response[k] = "X"

\* C9 (as claimed): every database id in the result of generateDatabaseFilters
\* is the id of a database of the supplied list.
C9_DatabaseFilterScoping ==
  Returned("generateDatabaseFilters") =>
    LET supplied == {call.args.databases[i].sourceId :
                       i \in 1..Len(call.args.databases)}
    IN /\ call.result.relevantDatabaseIds \subseteq supplied
       /\ call.result.fieldFilters \subseteq supplied

\* The task each stage is bound to, and whether it asks for the reasoning variant.
BoundTask ==
  CASE call.op = "rewriteQuery" -> "queryRewrite"
    [] call.op = "summarizeDocument" -> "summarization"
    [] call.op = "rerankDocuments" ->
         IF call.args.mode = "deep_search" THEN "deepRerank" ELSE "rerank"
    [] call.op = "generateFinalAnswer" -> "response"
    [] call.op = "generateNoContextAnswer" -> "noContext"
    [] call.op = "assessUserIntent" -> "intentRecognition"
    [] call.op = "generateDatabaseFilters" -> "databaseFilter"
    [] call.op = "evaluateAndRefine" -> "deepPlanner"
    [] call.op = "enrichChunk" -> "contextEnhancer"

BoundReasoning ==
  \/ call.op = "evaluateAndRefine"
  \/ call.op = "rerankDocuments" /\ call.args.mode = "deep_search"

\* C10: every stage resolves its own task: rerankDocuments resolves deepRerank
\* with the reasoning flag in deep_search mode and rerank without it in any
\* other mode, evaluateAndRefine resolves deepPlanner with the flag, and every
\* other stage resolves its task without the flag.
C10_TaskBinding ==
  (Called /\ call.op # "getChatModel") =>
    /\ call.task = BoundTask
    /\ call.reasoningModel = BoundReasoning

\* C10 witness: rerankDocuments ran in deep_search mode on deepRerank with the
\* reasoning flag.
C10_Witness ==
  /\ Returned("rerankDocuments")
  /\ call.args.mode = "deep_search"
  /\ call.task = "deepRerank"
  /\ call.reasoningModel

====
